---- MODULE Spec2Model ----
(***************************************************************************)
(* Illicit_Discharge_Tracking: the notebook Illicit_Discharge_Tracking_Tayl *)
(* (Mode A: conductivity -> concentration, observed rising-front slope,    *)
(* grid search over distance and mass with the Taylor solution) and the    *)
(* Taylor solution of TaylorTracerExp (Mode B).                            *)
(*                                                                         *)
(* The notebook is a sequence of cells that share one namespace.  The      *)
(* model keeps that namespace in ws (a function from the names that are    *)
(* bound to their values), the cell that runs next in pc, and the          *)
(* exception that stopped the last execution in err.                       *)
(*                                                                         *)
(* Numbers.  The notebook computes in binary floating point.  The model    *)
(* uses                                                                    *)
(*   - integers for times (s), distances (m), areas (0.001 m^2), flow      *)
(*     (L/s) and masses (0.00001 mg);                                      *)
(*   - integers in units of 0.01 mg/L for the observed concentrations;     *)
(*   - integers in units of 0.00001 (mg/L)/s for regression slopes;        *)
(*   - decimal floating point records [cls, m, e] (value m * 10^e, in      *)
(*     0.01 mg/L, five significant digits, with NaN and the infinities,    *)
(*     flushed to zero below the float64 range) for the values the Taylor  *)
(*     solution returns.                                                   *)
(* Values of linspace are rounded down to integers.                        *)
(***************************************************************************)
EXTENDS Integers, Sequences, FiniteSets, TLC

(***************************************************************************)
(* Bounds of the model.  N is the notebook's N (1000 there): the number of *)
(* candidate distances and the length of every synthetic time grid.  MMM   *)
(* is the notebook's MMM (50 there): the number of candidate masses.       *)
(* SeriesLen is the number of rows of an enumerated data file.             *)
(***************************************************************************)
N == 16

MMM == 3

SeriesLen == 5

(***************************************************************************)
(* Integer helpers.                                                        *)
(***************************************************************************)
Abs(a) == IF a < 0 THEN -a ELSE a

RECURSIVE Pow10(_)
Pow10(k) == IF k <= 0 THEN 1 ELSE 10 * Pow10(k - 1)

\* floor(a * b / c) for a, b >= 0 and c > 0, without forming a * b.
MulDiv(a, b, c) == (a \div c) * b + ((a % c) * b) \div c

\* floor(sqrt(v)) for v >= 0, by bisection on lo <= sqrt(v) < hi.
RECURSIVE SqrtBetween(_, _, _)
SqrtBetween(v, lo, hi) ==
    IF hi - lo <= 1 THEN lo
    ELSE LET mid == (lo + hi) \div 2
         IN  IF mid * mid <= v THEN SqrtBetween(v, mid, hi)
             ELSE SqrtBetween(v, lo, mid)

ISqrt(v) == SqrtBetween(v, 0, 46341)

\* Sum and arg-extrema of an array f over the index set 0..n-1.
RECURSIVE SumUpTo(_, _)
SumUpTo(f, n) == IF n <= 0 THEN 0 ELSE f[n - 1] + SumUpTo(f, n - 1)

Len0(f) == Cardinality(DOMAIN f)

(***************************************************************************)
(* Floating point values: [cls, m, e].  cls is "fin", "nan", "inf" or      *)
(* "ninf"; a finite value is m * 10^e with m = 0 /\ e = 0 or               *)
(* 10000 <= |m| <= 99999.                                                  *)
(***************************************************************************)
NaN == [cls |-> "nan", m |-> 0, e |-> 0]

PosInf == [cls |-> "inf", m |-> 0, e |-> 0]

NegInf == [cls |-> "ninf", m |-> 0, e |-> 0]

Zero == [cls |-> "fin", m |-> 0, e |-> 0]

\* Normal form of m * 10^e.  A magnitude below the float64 range (least
\* positive value about 4.9 * 10^-324) underflows to zero.
RECURSIVE FNorm(_, _)
FNorm(m, e) ==
    IF m = 0 THEN Zero
    ELSE IF Abs(m) >= 100000 THEN
        FNorm(IF m > 0 THEN m \div 10 ELSE -((-m) \div 10), e + 1)
    ELSE IF Abs(m) < 10000 THEN FNorm(m * 10, e - 1)
    ELSE IF e < -328 THEN Zero
    ELSE [cls |-> "fin", m |-> m, e |-> e]

\* An integer number of 0.01 mg/L as a floating point value.
FromFix(v) == FNorm(v, 0)

IsFin(a) == a.cls = "fin"

Sign(v) == IF v > 0 THEN 1 ELSE IF v < 0 THEN -1 ELSE 0

\* a < b for finite a and b in normal form.
FinLess(a, b) ==
    IF Sign(a.m) # Sign(b.m) THEN Sign(a.m) < Sign(b.m)
    ELSE IF a.m = 0 THEN FALSE
    ELSE IF a.m > 0 THEN (a.e < b.e) \/ (a.e = b.e /\ a.m < b.m)
    ELSE (a.e > b.e) \/ (a.e = b.e /\ a.m < b.m)

\* IEEE's a < b: false when either side is NaN.
Less(a, b) ==
    IF a.cls = "nan" \/ b.cls = "nan" THEN FALSE
    ELSE IF a.cls = "ninf" THEN b.cls # "ninf"
    ELSE IF b.cls = "inf" THEN a.cls # "inf"
    ELSE IF a.cls = "inf" \/ b.cls = "ninf" THEN FALSE
    ELSE FinLess(a, b)

\* frac * a for a fraction frac = [num, den] with 0 < num <= den <= 1000.
Times(frac, a) ==
    IF a.cls # "fin" THEN a
    ELSE LET w == FNorm(a.m * frac.num, a.e)
         IN  IF w.m = 0 THEN Zero
             ELSE FNorm((w.m * 1000) \div frac.den, w.e - 3)

(***************************************************************************)
(* State.                                                                  *)
(*   pc        the cell that runs next ("idle": nothing is running)        *)
(*   err       the exception that ended the last execution, and its cell   *)
(*   ws        the notebook's namespace: bound names |-> values            *)
(*   it        the (i, j) the grid search's loops take next                *)
(*   evaluated the (i, j) the loop body has been run for, in order, since  *)
(*             the search cell was last started                            *)
(*   out       what the search cell has printed: the (x, M) it reports     *)
(***************************************************************************)
VARIABLES pc, err, ws, it, evaluated, out

vars == <<pc, err, ws, it, evaluated, out>>

NoError == [type |-> "none", cell |-> "none"]

Raised(type, cell) == [type |-> type, cell |-> cell]

\* The namespace ns after the assignments in new (a function from names).
Assign(ns, new) == new @@ ns

\* Arrays are functions on 0..n-1, as numpy's are.
Array(n, F(_)) == [k \in 0 .. n - 1 |-> F(k)]

(***************************************************************************)
(* Cell 23: stream characteristics.  A1 = 1 ft^2 is 0.0929 m^2 and         *)
(* Q1 = 0.5 ft^3/s is 0.01416 m^3/s; U = Q/A.                              *)
(***************************************************************************)
A == 93

Q == 14

Rat(num, den) == [num |-> num, den |-> den]

\* Dispersion coefficients (m^2/s) the operator may select in cell 27.
KChoices == {Rat(2, 5), Rat(1, 300)}

(***************************************************************************)
(* Cell 28: the data file.  A data set is the conductivity column          *)
(* (microS/cm) and the sampling interval of the t_sec column.              *)
(***************************************************************************)
ECLevels == {555, 800, 1000}

SampleIntervals == {1, 600}

DataSet(EC, dt) == [EC |-> EC, dt |-> dt]

\* Every data file of SeriesLen rows over the conductivity levels.
AllDataSets ==
    {DataSet(EC, dt) : EC \in [0 .. SeriesLen - 1 -> ECLevels], dt \in SampleIntervals}

\* The data files of the pipeline runs: a ramp, the same event sampled every
\* second, a flat record, a step, and an event on a raised first sample.
RampEC == <<555, 555, 800, 1000, 555>>

StepEC == <<555, 555, 1000, 1000, 555>>

FlatEC == <<555, 555, 555, 555, 555>>

DipEC == <<800, 555, 800, 1000, 800>>

FromSeq(sq) == [k \in 0 .. Len(sq) - 1 |-> sq[k + 1]]

DataSets ==
    {DataSet(FromSeq(RampEC), 600), DataSet(FromSeq(RampEC), 1),
     DataSet(FromSeq(FlatEC), 600), DataSet(FromSeq(StepEC), 600),
     DataSet(FromSeq(DipEC), 600)}

\* t = array(data.t_sec) + 1, EC, EC_base = EC[2], sampint = t[2] - t[1].
LoadData(ns, d) ==
    LET t == Array(Len0(d.EC), LAMBDA k : k * d.dt + 1)
    IN  Assign(ns, [t |-> t, EC |-> d.EC, EC_base |-> d.EC[2],
                    sampint |-> t[2] - t[1]])

(***************************************************************************)
(* Cell 29: conductivity to concentration, and the mass under the curve.   *)
(***************************************************************************)
\* 0.000013 * EC**1.161074 * 10000 in 0.01 mg/L, for the conductivity
\* levels of the data files, to the nearest 0.02 mg/L (so that halving a sum
\* of two concentrations is exact, as it is in binary floating point).
PowerLaw(ec) ==
    CASE ec = 0 -> 0
      [] ec = 400 -> 13650
      [] ec = 555 -> 19966
      [] ec = 800 -> 30524
      [] ec = 1000 -> 39552

C_relOf(EC) == Array(Len0(EC), LAMBDA i : PowerLaw(EC[i]))

\* C_base = C_rel[1]
C_baseOf(C_rel) == C_rel[1]

\* The subtraction without the clamp of lines 410-411.
Unclamped(v) == v

\* C_obs[i] = C_rel[i] - C_base; if C_obs[i] < 0: C_obs[i] = 0
Clamp(v) == IF v < 0 THEN 0 ELSE v

C_obsOf(C_rel) == Array(Len0(C_rel), LAMBDA i : Clamp(C_rel[i] - C_baseOf(C_rel)))

\* The loop of line 414 started one index late.
C_areaFromTwo(C_obs) ==
    Array(Len0(C_obs),
          LAMBDA i : IF i <= 1 THEN 0 ELSE (C_obs[i] + C_obs[i - 1]) \div 2)

\* C_area[0] = 0; C_area[i] = (C_obs[i] + C_obs[i-1]) / 2 for i in 1..len-1
C_areaOf(C_obs) ==
    Array(Len0(C_obs),
          LAMBDA i : IF i = 0 THEN 0 ELSE (C_obs[i] + C_obs[i - 1]) \div 2)

\* MFR = sum(C_area) * sampint;  M = MFR * Q
MFROf(C_area, sampint) == SumUpTo(C_area, Len0(C_area)) * sampint

MassOf(MFR) == MFR * Q

Convert(ns) ==
    LET C_rel == C_relOf(ns.EC)
        C_obs == C_obsOf(C_rel)
        C_area == C_areaOf(C_obs)
        MFR == MFROf(C_area, ns.sampint)
    IN  Assign(ns, [C_rel |-> C_rel, C_base |-> C_baseOf(C_rel), C_obs |-> C_obs,
                    C_area |-> C_area, MFR |-> MFR, M |-> MassOf(MFR)])

(***************************************************************************)
(* numpy on arrays of floating point values.                               *)
(***************************************************************************)
AsFloats(C) == Array(Len0(C), LAMBDA k : FromFix(C[k]))

\* amax: NaN if any element is NaN, else the largest element.
RECURSIVE MaxUpTo(_, _)
MaxUpTo(C, n) ==
    IF n = 1 THEN C[0]
    ELSE LET r == MaxUpTo(C, n - 1)
         IN  IF Less(r, C[n - 1]) THEN C[n - 1] ELSE r

amax(C) ==
    IF \E k \in DOMAIN C : C[k].cls = "nan" THEN NaN ELSE MaxUpTo(C, Len0(C))

\* argmax: the first index that holds the maximum (the first NaN if any).
argmax(C) ==
    CHOOSE k \in DOMAIN C :
        /\ C[k] = amax(C)
        /\ \A h \in DOMAIN C : h < k => C[h] # amax(C)

\* The comparison of lines 513-514 with >= for >.
AtOrAbove(C, frac, Cmax) == {k \in DOMAIN C : ~Less(C[k], Times(frac, Cmax))}

\* The indices nonzero(C > frac * Cmax)[0] holds.
Above(C, frac, Cmax) == {k \in DOMAIN C : Less(Times(frac, Cmax), C[k])}

SetMin(S) == CHOOSE k \in S : \A h \in S : k <= h

\* The elements of a set of indices in increasing order, as an array.
RECURSIVE Increasing(_)
Increasing(S) ==
    IF S = {} THEN <<>> ELSE <<SetMin(S)>> \o Increasing(S \ {SetMin(S)})

\* The selection of line 520 without its upper end.
FromLower(t, t1, t2) == Increasing({k \in DOMAIN t : t[k] >= t1})

\* np.where(np.logical_and(t >= t1, t <= t2)), and a[poop].
Between(t, t1, t2) == Increasing({k \in DOMAIN t : t[k] >= t1 /\ t[k] <= t2})

Take(a, idx) == Array(Len(idx), LAMBDA k : a[idx[k + 1]])

(***************************************************************************)
(* smf.ols(formula = 'C ~ t').fit().params.t: the slope of the least       *)
(* squares line through the points (Lt[k], LC[k]).  statsmodels solves by  *)
(* the pseudo-inverse: with a single point (t, c) the design matrix [1 t]  *)
(* has rank one and the minimum-norm solution has slope t * c / (1 + t^2). *)
(* The result is in 0.00001 (mg/L)/s, rounded toward zero.                 *)
(***************************************************************************)
\* floor(r * 10^p / d) for 0 <= r < d, p >= 0, by long division.
RECURSIVE FracDigits(_, _, _)
FracDigits(r, d, p) ==
    IF p = 0 THEN 0
    ELSE ((r * 10) \div d) * Pow10(p - 1) + FracDigits((r * 10) % d, d, p - 1)

\* num * 10^p / den rounded toward zero, for den > 0.
ScaledQuotient(num, den, p) ==
    LET a == Abs(num)
        q == IF p >= 0 THEN (a \div den) * Pow10(p) + FracDigits(a % den, den, p)
             ELSE IF -p > 9 THEN 0
             ELSE (a \div den) \div Pow10(-p)
    IN  Sign(num) * q

\* The decimal exponent the points' values are aligned to: four digits of
\* the largest magnitude.
TopExp(LC) ==
    LET es == {LC[k].e : k \in {h \in DOMAIN LC : LC[h].m # 0}}
    IN  IF es = {} THEN 0 ELSE 1 + (CHOOSE e \in es : \A f \in es : f <= e)

\* The finite value a as an integer number of 10^k, rounded toward zero.
Aligned(a, k) ==
    IF a.m = 0 \/ k - a.e > 5 THEN 0
    ELSE Sign(a.m) * (Abs(a.m) \div Pow10(k - a.e))

\* The regression line forced through the origin (formula 'C ~ t - 1').
ols_through_origin(Lt, LC) ==
    LET n == Len0(Lt)
        k == TopExp(LC)
        c == Array(n, LAMBDA h : Aligned(LC[h], k))
    IN  ScaledQuotient(SumUpTo(Array(n, LAMBDA h : Lt[h] * c[h]), n),
                       SumUpTo(Array(n, LAMBDA h : Lt[h] * Lt[h]), n), k + 3)

ols_slope(Lt, LC) ==
    LET n == Len0(Lt)
        k == TopExp(LC)
        c == Array(n, LAMBDA h : Aligned(LC[h], k))
        s == Array(n, LAMBDA h : Lt[h] - Lt[0])
        St == SumUpTo(s, n)
        Sc == SumUpTo(c, n)
        Stt == SumUpTo(Array(n, LAMBDA h : s[h] * s[h]), n)
        Stc == SumUpTo(Array(n, LAMBDA h : s[h] * c[h]), n)
    IN  IF n = 1 THEN ScaledQuotient(Lt[0] * c[0], 1 + Lt[0] * Lt[0], k + 3)
        ELSE ScaledQuotient(n * Stc - St * Sc, n * Stt - St * St, k + 3)

(***************************************************************************)
(* The characterization both the observed cells (30, 31) and the loop body *)
(* of the search (lines 661-679) compute: the peak, the first indices      *)
(* above the lower and upper fraction of the peak, their times, the points *)
(* between those times and the slope of the regression line through them.  *)
(* nonzero(...)[0][0] raises IndexError when no element is above the       *)
(* threshold: the result then has ok = FALSE and keeps what was assigned   *)
(* before the exception.                                                   *)
(***************************************************************************)
ClowerD == Rat(1, 2)

CupperD == Rat(999, 1000)

\* An onset threshold above the lower bound fraction.
LateOnsetFraction == Rat(3, 4)

OnsetFraction == Rat(1, 100)

FrontAt(t, C, Cmax, lower, upper) ==
    LET lo == Above(C, lower, Cmax)
        hi == Above(C, upper, Cmax)
    IN  IF lo = {} THEN [ok |-> FALSE, new |-> [Cmax |-> Cmax]]
        ELSE IF hi = {} THEN
            [ok |-> FALSE, new |-> [Cmax |-> Cmax, indx1 |-> SetMin(lo)]]
        ELSE LET indx1 == SetMin(lo)
                 indx2 == SetMin(hi)
                 sel == Between(t, t[indx1], t[indx2])
             IN  [ok |-> TRUE,
                  new |-> [Cmax |-> Cmax, indx1 |-> indx1, indx2 |-> indx2,
                           t1 |-> t[indx1], t2 |-> t[indx2]],
                  Lt |-> Take(t, sel), LC |-> Take(C, sel),
                  slope |-> ols_slope(Take(t, sel), Take(C, sel))]

\* Cmax = amax(C) first, as the loop body has it.
Front(t, C, lower, upper) == FrontAt(t, C, amax(C), lower, upper)

(***************************************************************************)
(* The Taylor solution.                                                    *)
(*   def taylorU(t,M,U,K,x):                                               *)
(*       Cp = (M/(A*sqrt(4*pi*K*t)))*exp(-(x-U*t)**2/(4*K*t))              *)
(* t is a numpy array, so nothing raises: a division by zero gives an      *)
(* infinity or NaN and the square root of a negative number gives NaN.     *)
(* M >= 0 is a mass in 0.00001 mg, a_ the area in 0.001 m^2, U and K are   *)
(* fractions, x and the times are integers and x - U*t is taken to whole   *)
(* metres; the result is in 0.01 mg/L.                                     *)
(***************************************************************************)
\* a * b for finite a and b.
FMul(a, b) ==
    IF a.m = 0 \/ b.m = 0 THEN Zero
    ELSE LET w == FNorm(MulDiv(Abs(a.m), Abs(b.m), 10), a.e + b.e + 1)
         IN  IF Sign(a.m) = Sign(b.m) THEN w ELSE [w EXCEPT !.m = -w.m]

\* 10^(-k/10) for k in 0..9, five digits.
TenthPower(k) ==
    CASE k = 0 -> 100000 [] k = 1 -> 79433 [] k = 2 -> 63096 [] k = 3 -> 50119
      [] k = 4 -> 39811 [] k = 5 -> 31623 [] k = 6 -> 25119 [] k = 7 -> 19953
      [] k = 8 -> 15849 [] k = 9 -> 12589

\* exp(-(zi + zr/zd)) for zi >= 0 and 0 <= zr < zd.  float64's exp
\* underflows to zero beyond 745.13.  exp(-z) = 10^(-y) with y = z * log10(e)
\* = q + f; 10^(-f) is 10^(-k/10) times the series of exp(-w), w < 0.2303.
ExpNeg(zi, zr, zd) ==
    IF zi >= 746 THEN Zero
    ELSE LET y == zi * 43429 + (FracDigits(zr, zd, 4) * 43429) \div 10000
             q == y \div 100000
             f == y % 100000
             w == ((f % 10000) * 23026) \div 10000
             w2 == (w * w) \div 200000
             w3 == (w2 * w) \div 300000
             w4 == (w3 * w) \div 400000
             r == FMul(FNorm(TenthPower(f \div 10000), -5),
                       FNorm(100000 - w + w2 - w3 + w4, -5))
         IN  FNorm(r.m, r.e - q)

\* 100 * sqrt(4 * pi * K * t) for K * t > 0.
Sqrt4PiKt(K, t) ==
    IF Abs(t) <= 17000
    THEN ISqrt(MulDiv(125664 * Abs(t), Abs(K.num), K.den))
    ELSE 10 * ISqrt(MulDiv(1257 * Abs(t), Abs(K.num), K.den))

\* exp(-d^2 / (4*K*t)) for K * t > 0.
Decay(d, K, t) ==
    LET zd == 4 * Abs(K.num) * Abs(t)
        part == ((d * d) % zd) * K.den
    IN  IF (d * d) \div zd >= 746 THEN Zero
        ELSE ExpNeg(((d * d) \div zd) * K.den + part \div zd, part % zd, zd)

\* (M / (a_ * s)) * E for s = 100 * sqrt(4*pi*K*t) > 0 and E = exp(...).
Product(M, a_, s, E) ==
    IF a_ = 0 THEN (IF M = 0 \/ E.m = 0 THEN NaN ELSE PosInf)
    ELSE FMul(FNorm(Sign(a_) * ScaledQuotient(M, Abs(a_) * s, 3), -1), E)

\* x - U*t in whole metres.
Distance(x, U, t) ==
    x - (IF U.num * t >= 0 THEN (U.num * t) \div U.den
         ELSE -((-(U.num * t)) \div U.den))

\* One element of Cp: the concentration at time t.
taylorPoint(t, M, U, K, x, a_) ==
    LET kt == Sign(K.num) * Sign(t)
        negZero == (K.num < 0 /\ t = 0) \/ (K.num = 0 /\ t < 0)
    IN  IF kt < 0 THEN NaN
        ELSE IF kt = 0 THEN
            \* sqrt(0) = 0: M/(A*0) is an infinity (NaN for M = 0) and the
            \* exponent is -d^2/0
            IF M = 0 \/ Distance(x, U, t) = 0 \/ ~negZero THEN NaN
            ELSE IF a_ < 0 THEN PosInf ELSE NegInf
        ELSE IF Sqrt4PiKt(K, t) = 0 THEN NaN
        ELSE Product(M, a_, Sqrt4PiKt(K, t), Decay(Distance(x, U, t), K, t))

taylorU(t, M, U, K, x, a_) ==
    Array(Len0(t), LAMBDA k : taylorPoint(t[k], M, U, K, x, a_))

\* linspace(lo, hi, n), every value rounded down to an integer.
linspace(lo, hi, n) ==
    Array(n, LAMBDA k : IF n = 1 THEN lo ELSE lo + (k * (hi - lo)) \div (n - 1))

(***************************************************************************)
(* Cells 30 and 31 on the observed curve.                                  *)
(***************************************************************************)
U == Rat(Q, A)

\* Cell 30 (lines 456-461).  Line 460 raises IndexError when no sample is
\* above 1% of the peak; Cmax and Chalf are bound by then.
CharacterizeCell(ns) ==
    LET C == AsFloats(ns.C_obs)
        Cmax == amax(C)
        first == [Cmax |-> Cmax, Chalf |-> Times(Rat(1, 2), Cmax)]
        onset == Above(C, OnsetFraction, Cmax)
    IN  IF onset = {} THEN [ok |-> FALSE, ns |-> Assign(ns, first)]
        ELSE [ok |-> TRUE,
              ns |-> Assign(ns, [tstart |-> ns.t[SetMin(onset)],
                                 tpeak |-> ns.t[argmax(C)]] @@ first)]

\* (C_obs[indx2] - C_obs[indx1]) / (t2 - t1) on numpy scalars: 0/0 is NaN
\* with a warning.  In 0.00001 (mg/L)/s.
TwoPointSlope(dC, dt) ==
    IF dt = 0 THEN NaN ELSE FromFix(ScaledQuotient(dC, dt, 3))

\* Cell 31 (lines 509-533), with the Cmax the namespace holds; fr is the
\* front of the observed curve.
FrontBind(ns, fr) ==
    LET bounds == [ClowerD |-> ClowerD, CupperD |-> CupperD]
        found == [h \in DOMAIN fr.new \ {"Cmax"} |-> fr.new[h]]
    IN  IF ~fr.ok THEN [ok |-> FALSE, ns |-> Assign(ns, found @@ bounds)]
        ELSE [ok |-> TRUE,
              ns |-> Assign(ns,
                  [dCdtmeas1 |-> TwoPointSlope(ns.C_obs[fr.new.indx2]
                                               - ns.C_obs[fr.new.indx1],
                                               fr.new.t2 - fr.new.t1),
                   Lt |-> fr.Lt, LC |-> fr.LC, dCdtreg1 |-> fr.slope]
                  @@ found @@ bounds)]

FrontCell(ns) ==
    FrontBind(ns, FrontAt(ns.t, AsFloats(ns.C_obs), ns.Cmax, ClowerD, CupperD))

(***************************************************************************)
(* Cell 33: the grids and the initial difference (lines 611-623), and the  *)
(* body of the search loop (lines 658-685).                                *)
(***************************************************************************)
\* diffi = 10 (mg/L)/s, in 0.00001 (mg/L)/s.
InitialDiffi == 1000000

PrepareCell(ns) ==
    Assign(ns, [N |-> N, xrange |-> linspace(1, 1000, N), MMM |-> MMM,
                Msyn |-> linspace(ns.M - (ns.M * 3) \div 10,
                                  ns.M + (ns.M * 3) \div 10, MMM),
                diffi |-> InitialDiffi])

\* tend = 10*(x/U)
TendOf(x, u) == (10 * x * u.den) \div u.num

\* tsyn = linspace(1, tend, N)
TsynOf(x, u, n) == linspace(1, TendOf(x, u), n)

\* The names lines 658-679 bind, given the front fr of the synthetic curve;
\* lmsyn stands for lmsyn.params.t_sec_syn, the slope of the fitted line.
SynBind(tend, tsyn, Csyn, fr) ==
    LET first == [tend |-> tend, tsyn |-> tsyn, Csyn |-> Csyn]
    IN  IF ~fr.ok THEN [ok |-> FALSE, new |-> fr.new @@ first]
        ELSE [ok |-> TRUE, slope |-> fr.slope,
              new |-> [Ltsyn |-> fr.Lt, LCsyn |-> fr.LC, lmsyn |-> fr.slope,
                       dCdtregsyn |-> fr.slope]
                      @@ fr.new @@ first]

SynCurve(tend, tsyn, Csyn) ==
    SynBind(tend, tsyn, Csyn, Front(tsyn, Csyn, ClowerD, CupperD))

\* Lines 658-679 without line 661: the peak is the one the namespace holds.
SyntheticOnStalePeak(ns, x, m) ==
    SynBind(TendOf(x, ns.U), TsynOf(x, ns.U, ns.N),
            taylorU(TsynOf(x, ns.U, ns.N), m, ns.U, ns.K, x, ns.A),
            FrontAt(TsynOf(x, ns.U, ns.N),
                    taylorU(TsynOf(x, ns.U, ns.N), m, ns.U, ns.K, x, ns.A),
                    ns.Cmax, ClowerD, CupperD))

\* Lines 658-679 for the distance x and the mass m: the synthetic curve and
\* its front.  ok is FALSE when line 663 or 664 raises IndexError.
Synthetic(ns, x, m) ==
    SynCurve(TendOf(x, ns.U), TsynOf(x, ns.U, ns.N),
             taylorU(TsynOf(x, ns.U, ns.N), m, ns.U, ns.K, x, ns.A))

\* The loop body with a dispersion coefficient tuned on acceptance.
CompareTuningK(ns, x, m, sy) ==
    IF ~sy.ok THEN [ok |-> FALSE, ns |-> Assign(ns, sy.new)]
    ELSE LET diff == Abs(sy.slope - ns.dCdtreg1)
         IN  [ok |-> TRUE,
              ns |-> IF diff < ns.diffi
                     THEN Assign(ns, [diffi |-> diff, XYZ |-> x, MYZ |-> m,
                                      K |-> Rat(1, 300), diff |-> diff] @@ sy.new)
                     ELSE Assign(ns, [diff |-> diff] @@ sy.new)]

\* The comparison of line 682 with <= for <.
CompareOrEqual(ns, x, m, sy) ==
    IF ~sy.ok THEN [ok |-> FALSE, ns |-> Assign(ns, sy.new)]
    ELSE LET diff == Abs(sy.slope - ns.dCdtreg1)
         IN  [ok |-> TRUE,
              ns |-> IF diff <= ns.diffi
                     THEN Assign(ns, [diffi |-> diff, XYZ |-> x, MYZ |-> m,
                                      diff |-> diff] @@ sy.new)
                     ELSE Assign(ns, [diff |-> diff] @@ sy.new)]

\* Lines 680-685, given the synthetic front sy of (x, m).
Compare(ns, x, m, sy) ==
    IF ~sy.ok THEN [ok |-> FALSE, ns |-> Assign(ns, sy.new)]
    ELSE LET diff == Abs(sy.slope - ns.dCdtreg1)
         IN  [ok |-> TRUE,
              ns |-> IF diff < ns.diffi
                     THEN Assign(ns, [diffi |-> diff, XYZ |-> x, MYZ |-> m,
                                      diff |-> diff] @@ sy.new)
                     ELSE Assign(ns, [diff |-> diff] @@ sy.new)]

\* One pass of the loop body for the indices (i, j).
Body(ns, i, j) ==
    Compare(Assign(ns, [i |-> i, j |-> j]), ns.xrange[i], ns.Msyn[j],
            Synthetic(ns, ns.xrange[i], ns.Msyn[j]))

\* Cell 35 (lines 729-753): the curve for the reported (XYZ, MYZ) again.
ReplotBind(ns, sy) ==
    LET onset == Above(sy.new.Csyn, OnsetFraction, sy.new.Cmax)
        kept == [h \in DOMAIN sy.new \ {"dCdtregsyn"} |-> sy.new[h]]
    IN  IF ~sy.ok THEN [ok |-> FALSE, ns |-> Assign(ns, sy.new)]
        ELSE IF onset = {} THEN [ok |-> FALSE, ns |-> Assign(ns, kept)]
        ELSE [ok |-> TRUE,
              ns |-> Assign(ns, [tstartsyn |-> sy.new.tsyn[SetMin(onset)],
                                 tpeaksyn |-> sy.new.tsyn[argmax(sy.new.Csyn)]]
                                @@ kept)]

\* Cell 35 with the horizon 5*(XYZ/U) for 10*(XYZ/U).
ReplotCellHalfHorizon(ns) ==
    ReplotBind(ns, SynCurve(TendOf(ns.XYZ, ns.U) \div 2,
                            linspace(1, TendOf(ns.XYZ, ns.U) \div 2, ns.N),
                            taylorU(linspace(1, TendOf(ns.XYZ, ns.U) \div 2, ns.N),
                                    ns.MYZ, ns.U, ns.K, ns.XYZ, ns.A)))

ReplotCell(ns) == ReplotBind(ns, Synthetic(ns, ns.XYZ, ns.MYZ))

(***************************************************************************)
(* The notebook's executions.  "Run All" runs the cells in order and stops *)
(* at the first exception; the namespace outlives the execution, so a      *)
(* later execution starts with every name the earlier ones bound.          *)
(***************************************************************************)
NothingPrinted == [printed |-> FALSE]

\* A fresh kernel after cell 23: ft_m = 30.48/100 (in 0.0001 m), U, A, Q.
Fresh == [ft_m |-> 3048, U |-> U, A |-> A, Q |-> Q]

Stop(type, cell) ==
    /\ pc' = "idle"
    /\ err' = Raised(type, cell)

\* Cells 23-28: the stream, the dispersion coefficient and the data file.
Load(inputs) ==
    /\ pc \in {"load", "idle"}
    /\ \E d \in inputs, K \in KChoices :
           ws' = LoadData(Assign(ws, [K |-> K]), d)
    /\ pc' = "convert"
    /\ err' = NoError
    /\ out' = NothingPrinted
    /\ UNCHANGED <<it, evaluated>>

LoadInputs == Load(DataSets)

\* Cell 29.
ConvertCell ==
    /\ pc = "convert"
    /\ ws' = Convert(ws)
    /\ pc' = "characterize"
    /\ UNCHANGED <<err, it, evaluated, out>>

\* A cell that ran to its end (r.ok) or raised: the names it bound stay.
Ran(r, next, type, cell) ==
    /\ ws' = r.ns
    /\ IF r.ok THEN pc' = next /\ err' = NoError ELSE Stop(type, cell)

\* Cell 30.
Characterize ==
    /\ pc = "characterize"
    /\ Ran(CharacterizeCell(ws), "front", "IndexError", "30")
    /\ UNCHANGED <<it, evaluated, out>>

\* Cell 31.
FrontSlope ==
    /\ pc = "front"
    /\ Ran(FrontCell(ws), "prepare", "IndexError", "31")
    /\ UNCHANGED <<it, evaluated, out>>

\* Cell 33.
Prepare ==
    /\ pc = "prepare"
    /\ ws' = PrepareCell(ws)
    /\ pc' = "search"
    /\ UNCHANGED <<err, it, evaluated, out>>

\* Cell 34 starts: for i in range(1,N): for j in range(1,MMM):
StartSearch ==
    /\ pc = "search"
    /\ it' = [i |-> 1, j |-> 1]
    /\ evaluated' = <<>>
    /\ pc' = IF 1 < ws.N /\ 1 < ws.MMM THEN "loop" ELSE "report"
    /\ UNCHANGED <<err, ws, out>>

\* The two loops started over when they are exhausted.
AdvanceAround ==
    IF it.j + 1 < ws.MMM THEN it' = [it EXCEPT !.j = it.j + 1] /\ pc' = "loop"
    ELSE IF it.i + 1 < ws.N THEN it' = [i |-> it.i + 1, j |-> 1] /\ pc' = "loop"
    ELSE it' = [i |-> 1, j |-> 1] /\ pc' = "loop"

\* The step of the two loops after a pass of the body.
Advance ==
    IF it.j + 1 < ws.MMM THEN it' = [it EXCEPT !.j = it.j + 1] /\ pc' = "loop"
    ELSE IF it.i + 1 < ws.N THEN it' = [i |-> it.i + 1, j |-> 1] /\ pc' = "loop"
    ELSE UNCHANGED it /\ pc' = "report"

Pass(r) ==
    /\ ws' = r.ns
    /\ IF r.ok THEN Advance /\ UNCHANGED err
       ELSE Stop("IndexError", "34") /\ UNCHANGED it

\* One pass of the loop body and the step of the two loops.
SearchStep ==
    /\ pc = "loop"
    /\ evaluated' = Append(evaluated, <<it.i, it.j>>)
    /\ Pass(Body(ws, it.i, it.j))
    /\ UNCHANGED out

\* Lines 687-688: print XYZ and MYZ.  A name that was never bound raises
\* NameError.
Report ==
    /\ pc = "report"
    /\ IF "XYZ" \in DOMAIN ws
       THEN /\ out' = [printed |-> TRUE, x |-> ws.XYZ, M |-> ws.MYZ]
            /\ pc' = "replot"
            /\ UNCHANGED err
       ELSE Stop("NameError", "34") /\ UNCHANGED out
    /\ UNCHANGED <<ws, it, evaluated>>

\* Cell 35, the last one of the execution.
Replot ==
    /\ pc = "replot"
    /\ Ran(ReplotCell(ws), "idle", "IndexError", "35")
    /\ UNCHANGED <<it, evaluated, out>>

Init ==
    /\ pc = "load"
    /\ err = NoError
    /\ ws = Fresh
    /\ it = [i |-> 1, j |-> 1]
    /\ evaluated = <<>>
    /\ out = NothingPrinted

Next ==
    \/ LoadInputs
    \/ ConvertCell
    \/ Characterize
    \/ FrontSlope
    \/ Prepare
    \/ StartSearch
    \/ SearchStep
    \/ Report
    \/ Replot

Spec == Init /\ [][Next]_vars

(***************************************************************************)
(* The grid search (cell 34).                                              *)
(***************************************************************************)
\* The difference line 681 computes for a synthetic front, where it has one.
DiffOf(ns, sy) == Abs(sy.slope - ns.dCdtreg1)

Resolved(ns, i, j) == Synthetic(ns, ns.xrange[i], ns.Msyn[j]).ok

DiffAt(ns, i, j) == DiffOf(ns, Synthetic(ns, ns.xrange[i], ns.Msyn[j]))

\* The search of this execution ran to its end, accepted a candidate and
\* printed it.
Returned == out.printed /\ ws.diffi < InitialDiffi

\* C1: when the search completes, the (x, M) it returns is a point of the
\* distance grid x mass grid, and no point of the full grid (every index of
\* xrange, every index of Msyn) has a strictly smaller
\* |synthetic slope - observed slope| than the returned point.
C1_ReturnedIsGridMinimum ==
    Returned =>
        \E i \in 0 .. N - 1, j \in 0 .. MMM - 1 :
            /\ out.x = ws.xrange[i]
            /\ out.M = ws.Msyn[j]
            /\ Resolved(ws, i, j)
            /\ \A h \in 0 .. N - 1, k \in 0 .. MMM - 1 :
                   Resolved(ws, h, k) => DiffAt(ws, h, k) >= DiffAt(ws, i, j)

\* The number of passes of the loop body for the pair (i, j).
Passes(i, j) == Cardinality({k \in 1 .. Len(evaluated) : evaluated[k] = <<i, j>>})

\* C2: when the loops of the search have ended, the body has been run
\* exactly once for every pair of an element of the distance grid (first to
\* last) and an element of the mass grid (first to last).
C2_EveryPairOnce ==
    pc = "report" => \A i \in 0 .. N - 1, j \in 0 .. MMM - 1 : Passes(i, j) = 1

\* C3: a search that accepts no candidate (diffi keeps its initial value)
\* reports no (x, M): neither a default nor a previously stored one.
C3_NoCandidateNoReport ==
    out.printed => ws.diffi < InitialDiffi

\* C4: when the search fails part-way (the characterization of a synthetic
\* curve raises), no best (x, M) of that search is available afterwards.
C4_NoPartialResult ==
    (pc = "idle" /\ err = Raised("IndexError", "34")) =>
        ws.diffi = InitialDiffi

(***************************************************************************)
(* The observed path alone, over every data file: cells 28-31 of a fresh   *)
(* kernel.  After cell 30 raised, the operator may still run cell 31 by    *)
(* hand: the notebook does not stop that.                                  *)
(***************************************************************************)
LoadAny ==
    /\ pc = "load"
    /\ Load(AllDataSets)

FrontByHand ==
    /\ pc = "idle"
    /\ err = Raised("IndexError", "30")
    /\ Ran(FrontCell(ws), "prepare", "IndexError", "31")
    /\ UNCHANGED <<it, evaluated, out>>

NextObs ==
    \/ LoadAny
    \/ ConvertCell
    \/ Characterize
    \/ FrontSlope
    \/ FrontByHand

SpecObs == Init /\ [][NextObs]_vars

\* Cell 31 has run in this execution, to its end or to an exception.
FrontCellRan == pc = "prepare" \/ err.cell = "31"

\* No sample of the observed curve is above the lower fraction (one half)
\* of the largest sample.
FlatCurve ==
    \A k \in DOMAIN ws.C_obs :
        \E h \in DOMAIN ws.C_obs : 2 * ws.C_obs[k] <= ws.C_obs[h]

\* C6: the characterization of a flat curve, in which no element exceeds the
\* lower (or upper) fraction of the peak, ends in the bound-search failure
\* (IndexError from nonzero(...)[0][0]) and binds no slope, not even zero.
C6_FlatCurveFails ==
    (FrontCellRan /\ FlatCurve) =>
        /\ err = Raised("IndexError", "31")
        /\ "dCdtreg1" \notin DOMAIN ws

C6_Witness == FrontCellRan /\ FlatCurve /\ err = Raised("IndexError", "31")

\* C7: when the rising front selected between the bound times has fewer
\* than two points, the characterization fails and binds no regression slope.
C7_ShortFrontFails ==
    ("Lt" \in DOMAIN ws /\ Len0(ws.Lt) < 2) =>
        /\ err.cell = "31"
        /\ "dCdtreg1" \notin DOMAIN ws

\* C8: every element of the converter's output is >= 0, and exactly 0 where
\* the converted concentration is below the baseline concentration.
C8_ClampedAtZero ==
    "C_obs" \in DOMAIN ws =>
        \A k \in DOMAIN ws.C_obs :
            /\ ws.C_obs[k] >= 0
            /\ ws.C_rel[k] < ws.C_base => ws.C_obs[k] = 0

C8_Witness ==
    /\ "C_obs" \in DOMAIN ws
    /\ \E k \in DOMAIN ws.C_obs : ws.C_rel[k] < ws.C_base
    /\ \E k \in DOMAIN ws.C_obs : ws.C_obs[k] > 0

\* C9: the concentration the converter subtracts is that of the sample
\* designated as the baseline conductivity EC_base, so the output at that
\* sample (index 2) is exactly 0.
C9_BaselineIsECBase ==
    "C_obs" \in DOMAIN ws =>
        /\ ws.C_base = PowerLaw(ws.EC_base)
        /\ ws.C_obs[2] = 0

\* Sum over i in 1..n-1 of (t[i] - t[i-1]) * (C[i] + C[i-1]) / 2.
RECURSIVE Trapezoid(_, _, _)
Trapezoid(t, C, n) ==
    IF n <= 1 THEN 0
    ELSE Trapezoid(t, C, n - 1)
         + ((t[n - 1] - t[n - 2]) * (C[n - 1] + C[n - 2])) \div 2

\* C10: the mass estimate is Q * sampint * sum over i in 1..n-1 of
\* (C[i] + C[i-1]) / 2, that is Q times the trapezoid-rule integral of the
\* clamped concentration over the time stamps, and it is >= 0.
C10_MassIsTrapezoid ==
    "M" \in DOMAIN ws =>
        /\ ws.M = Q * Trapezoid(ws.t, ws.C_obs, Len0(ws.C_obs))
        /\ ws.M >= 0

C10_Witness ==
    /\ "M" \in DOMAIN ws
    /\ ws.M > 0
    /\ ws.C_obs[0] > 0
    /\ ws.C_obs[SeriesLen - 1] > 0

(***************************************************************************)
(* The Taylor solution on its own: taylorU of this notebook and taylor2nd  *)
(* of TaylorTracerExp.ipynb (lines 232-234, the same expression on the     *)
(* globals M, A and x), called with valid and invalid parameters.          *)
(***************************************************************************)
taylor2nd(t, K, U_, ns) ==
    Array(Len0(t), LAMBDA k : taylorPoint(t[k], ns.M, U_, K, ns.x, ns.A))

TimeSeries == {FromSeq(<<1, 10, 20>>), FromSeq(<<0, 10, 20>>), FromSeq(<<-5, 0, 5>>)}

Dispersions == {Rat(2, 5), Rat(0, 1), Rat(-1, 5)}

Areas == {A, 0, -A}

Masses == {0, 1000000}

Distances == {0, 2}

InitTaylor ==
    /\ pc = "call"
    /\ err = NoError
    /\ ws \in [t : TimeSeries, K : Dispersions, A : Areas, M : Masses, x : Distances]
    /\ it = [i |-> 1, j |-> 1]
    /\ evaluated = <<>>
    /\ out = NothingPrinted

\* Neither function raises: numpy warns and returns.
Returns(fn, Cp) ==
    /\ pc = "call"
    /\ out' = [printed |-> FALSE, fn |-> fn, Cp |-> Cp]
    /\ pc' = "returned"
    /\ UNCHANGED <<err, ws, it, evaluated>>

CallTaylorU == Returns("taylorU", taylorU(ws.t, ws.M, U, ws.K, ws.x, ws.A))

CallTaylor2nd == Returns("taylor2nd", taylor2nd(ws.t, ws.K, U, ws))

NextTaylor ==
    \/ CallTaylorU
    \/ CallTaylor2nd

SpecTaylor == InitTaylor /\ [][NextTaylor]_vars

InvalidParameters ==
    \/ ws.K.num <= 0
    \/ ws.A <= 0
    \/ \E k \in DOMAIN ws.t : ws.t[k] <= 0

\* C5: the Taylor solution called with K <= 0, A <= 0 or a time <= 0 ends
\* in an invalid-parameter failure; it never returns a concentration
\* sequence containing NaN or an infinite value.
C5_InvalidParametersRejected ==
    (pc = "returned" /\ InvalidParameters) =>
        /\ err.type # "none"
        /\ \A k \in DOMAIN out.Cp : IsFin(out.Cp[k])

(***************************************************************************)
(* Mode B: TaylorTracerExp.ipynb.  Cell 4 loads the tracer data and the    *)
(* known stream properties, cell 6 derives U and A, cell 8 fits K and U    *)
(* with scipy's curve_fit(taylor2nd, t, C, p0=[.1,0.1]) and rebinds K, U.  *)
(* curve_fit is scipy's, not the notebook's: it is modelled by what it     *)
(* does to the notebook, a series of calls of taylor2nd(t, K, U) with      *)
(* trial parameters, the first at p0, without bounds on the parameters     *)
(* (none are passed), that ends either in a returned popt, one of the      *)
(* trials whose curve is finite, or in RuntimeError when the budget of     *)
(* calls (maxfev) is used up.                                              *)
(***************************************************************************)
\* Budget of calls of taylor2nd (scipy: 200 * (number of parameters + 1)).
MaxFev == 3

TracerSeries ==
    {FromSeq(<<0, 500, 2000, 800, 0>>), FromSeq(<<0, 2000, 500, 0, 0>>),
     FromSeq(<<0, 0, 0, 1500, 300>>)}

TracerIntervals == {60, 120}

\* Cell 4 (lines 146-169): M = 1000 (in 0.00001), Q = 0.6476 ft^3/s = 18 L/s,
\* x = 289 ft = 88 m, W = 3 ft = 914 mm.
LoadTracer(C, dt) ==
    LET t == Array(Len0(C), LAMBDA k : k * dt + 1)
    IN  [ft_m |-> 3048, t |-> t, C |-> C, tpeak |-> t[argmax(AsFloats(C))],
         M |-> 100000000, Q |-> 18, x |-> 88, W |-> 914]

\* Cell 6 (lines 192-194): U = x/tpeak, A = Q/U (0.001 m^2), h = A/W (mm).
DeriveCell(ns) ==
    Assign(ns, [U |-> Rat(ns.x, ns.tpeak),
                A |-> (ns.Q * ns.tpeak) \div ns.x,
                h |-> (((ns.Q * ns.tpeak) \div ns.x) * 1000) \div ns.W])

\* p0 = [.1, 0.1]
P0 == [K |-> Rat(1, 10), U |-> Rat(1, 10)]

\* Parameter vectors the optimizer may try.
Trials ==
    {P0, [K |-> Rat(2, 5), U |-> Rat(3, 10)], [K |-> Rat(2, 5), U |-> Rat(-1, 10)],
     [K |-> Rat(-1, 10), U |-> Rat(1, 10)], [K |-> Rat(0, 1), U |-> Rat(3, 10)]}

Finite(Cp) == \A k \in DOMAIN Cp : IsFin(Cp[k])

InitFit ==
    /\ pc = "tracer"
    /\ err = NoError
    /\ ws = [ft_m |-> 3048]
    /\ it = [i |-> 1, j |-> 1]
    /\ evaluated = <<>>
    /\ out = NothingPrinted

LoadTracerCell ==
    /\ pc = "tracer"
    /\ \E C \in TracerSeries, dt \in TracerIntervals : ws' = LoadTracer(C, dt)
    /\ pc' = "derive"
    /\ UNCHANGED <<err, it, evaluated, out>>

Derive ==
    /\ pc = "derive"
    /\ ws' = DeriveCell(ws)
    /\ pc' = "fit"
    /\ UNCHANGED <<err, it, evaluated, out>>

\* curve_fit starts: the first call of taylor2nd is at p0.
StartFit ==
    /\ pc = "fit"
    /\ evaluated' = <<P0>>
    /\ pc' = "fitting"
    /\ UNCHANGED <<err, ws, it, out>>

\* One more call taylor2nd(t, K, U): K and U are its parameters, the
\* globals stay as they are.
TrialStep ==
    /\ pc = "fitting"
    /\ Len(evaluated) < MaxFev
    /\ \E p \in Trials : evaluated' = Append(evaluated, p)
    /\ UNCHANGED <<pc, err, ws, it, out>>

\* curve_fit returns popt; lines 255-259 bind K and U and print them.
FitReturns ==
    /\ pc = "fitting"
    /\ \E k \in 1 .. Len(evaluated) :
           /\ Finite(taylor2nd(ws.t, evaluated[k].K, evaluated[k].U, ws))
           /\ ws' = Assign(ws, [popt |-> evaluated[k], K |-> evaluated[k].K,
                                U |-> evaluated[k].U])
           /\ out' = [printed |-> TRUE, K |-> evaluated[k].K, U |-> evaluated[k].U]
    /\ pc' = "fitted"
    /\ UNCHANGED <<err, it, evaluated>>

\* The budget is used up: curve_fit raises RuntimeError.
FitFails ==
    /\ pc = "fitting"
    /\ Len(evaluated) = MaxFev
    /\ pc' = "failed"
    /\ err' = Raised("RuntimeError", "8")
    /\ UNCHANGED <<ws, it, evaluated, out>>

NextFit ==
    \/ LoadTracerCell
    \/ Derive
    \/ StartFit
    \/ TrialStep
    \/ FitReturns
    \/ FitFails

SpecFit == InitFit /\ [][NextFit]_vars

\* C11: the fit ends in an error and reports no (K, U) when the optimizer
\* does not converge within its budget or yields K <= 0 or U <= 0; a
\* reported (K, U) has K > 0 and U > 0.
C11_ReportedFitIsPositive ==
    /\ pc = "fitted" => (ws.K.num > 0 /\ ws.U.num > 0)
    /\ err.type # "none" => ~out.printed

(***************************************************************************)
(* The two notebooks side by side: a kernel runs one or the other.         *)
(***************************************************************************)
InitModes == Init \/ InitFit

NextModes == Next \/ NextFit

SpecModes == InitModes /\ [][NextModes]_vars

\* C12: a pass of the Mode A loop changes the candidate (x, M) and leaves the
\* globals K, U and A as they were; a step of the Mode B fit, the rebinding
\* of K and U included, leaves M, x and A as they were.
C12_TwoParametersVary ==
    [][/\ pc = "loop" => (ws'.K = ws.K /\ ws'.U = ws.U /\ ws'.A = ws.A)
       /\ pc = "fitting" => (ws'.M = ws.M /\ ws'.x = ws.x /\ ws'.A = ws.A)]_vars

\* The search has accepted a second candidate: XYZ and MYZ have changed.
C12_Witness ==
    /\ pc = "loop"
    /\ "XYZ" \in DOMAIN ws
    /\ ws.diffi < InitialDiffi
    /\ <<ws.XYZ, ws.MYZ>> # <<ws.xrange[1], ws.Msyn[1]>>
    /\ ws.K = Rat(2, 5)

(***************************************************************************)
(* Cells 30 and 31 on observed curves given directly: every curve the      *)
(* converter can leave in C_obs (no negative sample, C_obs[1] = 0) over a   *)
(* few concentration levels, in 0.01 mg/L.                                  *)
(***************************************************************************)
CurveLevels == {0, 200, 300, 400, 500}

CurveIntervals == {1, 3}

Curves == {C \in [0 .. SeriesLen - 1 -> CurveLevels] : C[1] = 0}

Observed(C, dt) ==
    Assign(Fresh, [t |-> Array(SeriesLen, LAMBDA k : k * dt + 1), C_obs |-> C])

InitFront ==
    /\ pc = "characterize"
    /\ err = NoError
    /\ ws \in {Observed(C, dt) : C \in Curves, dt \in CurveIntervals}
    /\ it = [i |-> 1, j |-> 1]
    /\ evaluated = <<>>
    /\ out = NothingPrinted

NextFront ==
    \/ Characterize
    \/ FrontSlope
    \/ FrontByHand

SpecFront == InitFront /\ [][NextFront]_vars

\* The largest sample of the observed curve, in 0.01 mg/L.
Peak == CHOOSE v \in {ws.C_obs[k] : k \in DOMAIN ws.C_obs} :
            \A k \in DOMAIN ws.C_obs : ws.C_obs[k] <= v

\* C13: indx1 is the smallest index whose sample is strictly above one half
\* of the peak and indx2 the smallest whose sample is strictly above 0.999
\* of the peak; no earlier sample is above the threshold, and a sample equal
\* to the threshold is not selected.
C13_FirstStrictlyAbove ==
    pc = "prepare" =>
        /\ 2 * ws.C_obs[ws.indx1] > Peak
        /\ \A k \in 0 .. ws.indx1 - 1 : 2 * ws.C_obs[k] <= Peak
        /\ 1000 * ws.C_obs[ws.indx2] > 999 * Peak
        /\ \A k \in 0 .. ws.indx2 - 1 : 1000 * ws.C_obs[k] <= 999 * Peak

\* A sample exactly at one half of the peak comes before the lower bound.
C13_Witness ==
    /\ pc = "prepare"
    /\ \E k \in 0 .. ws.indx1 - 1 : 2 * ws.C_obs[k] = Peak

\* C14: the points the regression gets are the samples with
\* t[indx1] <= t <= t[indx2], both ends included: with increasing times, the
\* samples at the indices indx1 .. indx2, in order.
C14_FrontIsInclusiveRange ==
    pc = "prepare" =>
        /\ ws.indx1 <= ws.indx2
        /\ ws.Lt = [k \in 0 .. ws.indx2 - ws.indx1 |-> ws.t[ws.indx1 + k]]
        /\ ws.LC = [k \in 0 .. ws.indx2 - ws.indx1 |->
                        FromFix(ws.C_obs[ws.indx1 + k])]

\* A front with both ends and a sample between them.
C14_Witness ==
    /\ pc = "prepare"
    /\ ws.indx2 - ws.indx1 >= 2

\* The samples of the front, two at least, lie on one line.
OnALine ==
    /\ ws.indx2 > ws.indx1
    /\ \A k \in ws.indx1 .. ws.indx2 :
           (ws.C_obs[k] - ws.C_obs[ws.indx1]) * (ws.t[ws.indx2] - ws.t[ws.indx1])
               = (ws.C_obs[ws.indx2] - ws.C_obs[ws.indx1]) * (ws.t[k] - ws.t[ws.indx1])

\* C15: when the samples of the front lie on a line C = a + b*t, the slope
\* of the regression is b (in 0.00001 (mg/L)/s, the resolution of slopes).
C15_ExactOnLinearFront ==
    (pc = "prepare" /\ OnALine) =>
        ws.dCdtreg1 = ScaledQuotient(ws.C_obs[ws.indx2] - ws.C_obs[ws.indx1],
                                     ws.t[ws.indx2] - ws.t[ws.indx1], 3)

\* A linear front of three samples whose slope is not a whole number.
C15_Witness ==
    /\ pc = "prepare"
    /\ OnALine
    /\ ws.indx2 - ws.indx1 = 2
    /\ ws.t[1] - ws.t[0] = 3

(***************************************************************************)
(* The round trip of the slope matching: the observed curve is the Taylor  *)
(* solution itself, taylorU at the known M = 1 000 000 mg, U = 11/70 m/s    *)
(* (0.157), K = 11/30 m^2/s (0.367), A = 0.113 m^2 and x = 88 m, sampled    *)
(* like a data file of SeriesLen rows; cells 30 to 35 then run on it with   *)
(* the known M.                                                            *)
(***************************************************************************)
Known ==
    [ft_m |-> 3048, U |-> Rat(11, 70), K |-> Rat(11, 30), A |-> 113,
     M |-> 100000000, x |-> 88]

RoundTripIntervals == {70, 100, 200, 900}

\* The simulated curve at the time stamps k * dt + 1, in 0.01 mg/L.
Simulated(ns, dt) ==
    LET t == Array(SeriesLen, LAMBDA k : k * dt + 1)
        Cp == taylorU(t, ns.M, ns.U, ns.K, ns.x, ns.A)
    IN  Assign(ns, [t |-> t, sampint |-> dt,
                    C_obs |-> Array(SeriesLen, LAMBDA k : Aligned(Cp[k], 0))])

InitRoundTrip ==
    /\ pc = "simulate"
    /\ err = NoError
    /\ ws = Known
    /\ it = [i |-> 1, j |-> 1]
    /\ evaluated = <<>>
    /\ out = NothingPrinted

Simulate ==
    /\ pc = "simulate"
    /\ \E dt \in RoundTripIntervals : ws' = Simulated(ws, dt)
    /\ pc' = "characterize"
    /\ UNCHANGED <<err, it, evaluated, out>>

NextRoundTrip ==
    \/ Simulate
    \/ Characterize
    \/ FrontSlope
    \/ Prepare
    \/ StartSearch
    \/ SearchStep
    \/ Report
    \/ Replot

SpecRoundTrip == InitRoundTrip /\ [][NextRoundTrip]_vars

\* C16: the distance the search reports for a simulated curve is within one
\* spacing of the distance grid of the x the curve was simulated with.
C16_RoundTripWithinSpacing ==
    out.printed => Abs(out.x - ws.x) <= ws.xrange[1] - ws.xrange[0]

(***************************************************************************)
(* The search on faint events: observed curves of a few 0.01 mg/L, given   *)
(* directly with the mass lines 414-418 compute from them.  The slopes are *)
(* then a few 0.00001 (mg/L)/s and several grid points have the same       *)
(* difference to the observed slope.                                       *)
(***************************************************************************)
FaintLevels == {0, 5, 10}

FaintIntervals == {600, 3000}

FaintCurves == {C \in [0 .. SeriesLen - 1 -> FaintLevels] : C[0] = 0 /\ C[1] = 0}

Faint(C, dt) ==
    Assign(Observed(C, dt),
           [K |-> Rat(2, 5), sampint |-> dt, C_area |-> C_areaOf(C),
            MFR |-> MFROf(C_areaOf(C), dt),
            M |-> MassOf(MFROf(C_areaOf(C), dt))])

InitFaint ==
    /\ pc = "characterize"
    /\ err = NoError
    /\ ws \in {Faint(C, dt) : C \in FaintCurves, dt \in FaintIntervals}
    /\ it = [i |-> 1, j |-> 1]
    /\ evaluated = <<>>
    /\ out = NothingPrinted

NextFaint ==
    \/ Characterize
    \/ FrontSlope
    \/ Prepare
    \/ StartSearch
    \/ SearchStep
    \/ Report
    \/ Replot

SpecFaint == InitFaint /\ [][NextFaint]_vars

\* (h, k) comes before (i, j) in the order of the two loops.
Before(h, k, i, j) == h < i \/ (h = i /\ k < j)

\* C17: the stored best is replaced only by a strictly smaller difference:
\* the point the search returns has the smallest difference of the points
\* the loops visit, and of the points with that difference it is the first
\* in the order of the loops (smallest x, then smallest M).
C17_FirstMinimumWins ==
    Returned =>
        \E i \in 1 .. N - 1, j \in 1 .. MMM - 1 :
            /\ out.x = ws.xrange[i]
            /\ out.M = ws.Msyn[j]
            /\ DiffAt(ws, i, j) = ws.diffi
            /\ \A h \in 1 .. N - 1, k \in 1 .. MMM - 1 :
                   /\ DiffAt(ws, h, k) >= ws.diffi
                   /\ DiffAt(ws, h, k) = ws.diffi => ~Before(h, k, i, j)

\* A search returned although a later point has the same difference.
C17_Witness ==
    /\ Returned
    /\ \E h \in 1 .. N - 1, k \in 1 .. MMM - 1 :
           /\ <<ws.xrange[h], ws.Msyn[k]>> # <<out.x, out.M>>
           /\ DiffAt(ws, h, k) = ws.diffi

\* The points the loop body has been run for since the search started.
Visited == {evaluated[n] : n \in 1 .. Len(evaluated)}

\* C18: after every pass of the loop body diffi is the smallest difference
\* of the points visited so far, and (XYZ, MYZ) is a visited point with
\* exactly that difference.
C18_RunningMinimum ==
    (pc \in {"loop", "report"} /\ evaluated # <<>>) =>
        /\ \A e \in Visited : DiffAt(ws, e[1], e[2]) >= ws.diffi
        /\ "XYZ" \in DOMAIN ws
        /\ \E e \in Visited :
               /\ DiffAt(ws, e[1], e[2]) = ws.diffi
               /\ ws.XYZ = ws.xrange[e[1]]
               /\ ws.MYZ = ws.Msyn[e[2]]

\* C19: a characterization that fails at one grid point does not end the
\* search: the search ends in that failure only if the characterization
\* fails at every grid point the loops visit.
C19_OneFailureDoesNotAbort ==
    err = Raised("IndexError", "34") =>
        \A i \in 1 .. N - 1, j \in 1 .. MMM - 1 : ~Resolved(ws, i, j)

(***************************************************************************)
(* Termination of the search.  A running cell is executed to its end: a    *)
(* pass of the loop body that can be made is made.                         *)
(***************************************************************************)
\* What a pass of the loop body (SearchStep) does to the record of passes.
LoopBodyRuns ==
    /\ pc = "loop"
    /\ evaluated' = Append(evaluated, <<it.i, it.j>>)

SpecFaintFair == SpecFaint /\ WF_evaluated(LoopBodyRuns)

\* C20: the search makes at most N * MMM passes of the loop body, each on a
\* time grid tsyn of N points, and then ends.
C20_SearchTerminates ==
    /\ [](Len(evaluated) <= N * MMM)
    /\ [](pc = "loop" /\ evaluated # <<>> => DOMAIN ws.tsyn = 0 .. N - 1)
    /\ (pc = "loop") ~> (pc # "loop")

\* The loops are exhausted.
C20_Witness ==
    /\ pc = "report"
    /\ Len(evaluated) = (N - 1) * (MMM - 1)

(***************************************************************************)
(* The loop body as a function of its inputs.                              *)
(***************************************************************************)
\* The synthetic front of (x, m) from the parameters alone: K, the velocity
\* U_, the area a_ and the length n of the time grid.
FrontOf(x, m, K, U_, a_, n) ==
    SynCurve(TendOf(x, U_), TsynOf(x, U_, n),
             taylorU(TsynOf(x, U_, n), m, U_, K, x, a_))

\* The namespace holds the slope of the front sy and its difference to the
\* observed slope.
HoldsSlopeOf(ns, sy) ==
    /\ sy.ok
    /\ ns.dCdtregsyn = sy.slope
    /\ ns.diff = Abs(sy.slope - ns.dCdtreg1)

\* The pair (i, j) of the last pass of the loop body.
LastVisited == evaluated[Len(evaluated)]

Replotted == pc = "idle" /\ err = NoError /\ Returned

\* C22: the regression on the curve cell 35 computes again for the returned
\* (XYZ, MYZ) has the slope of the winning pass: its difference to the
\* observed slope is the final diffi.
C22_ReplotReproducesWinner ==
    Replotted => Abs(ws.lmsyn - ws.dCdtreg1) = ws.diffi

\* The winner was not the last point visited: the slope of the last pass
\* is another one.
C22_Witness ==
    /\ Replotted
    /\ ws.dCdtregsyn # ws.lmsyn

\* C23: on a curve with a peak above 0 the characterization succeeds and
\* its marks are in order: start of the front, lower bound, upper bound,
\* first maximum, by index and by time; the front holds a sample at least.
C23_MarksInOrder ==
    (FrontCellRan /\ Peak > 0) =>
        /\ pc = "prepare"
        /\ ws.tstart <= ws.t1 /\ ws.t1 <= ws.t2 /\ ws.t2 <= ws.tpeak
        /\ ws.indx1 <= ws.indx2
        /\ \A k \in 0 .. ws.indx2 - 1 : ws.C_obs[k] < Peak
        /\ \A k \in DOMAIN ws.t : ws.t[k] < ws.tstart => ws.t[k] < ws.t[ws.indx1]
        /\ Len0(ws.Lt) >= 1

\* The start of the front, the lower bound and the upper bound at three
\* different samples.
C23_Witness ==
    /\ pc = "prepare"
    /\ ws.tstart < ws.t1
    /\ ws.t1 < ws.t2

\* The namespace ns holds the marks and the slope of the front fr, and
\* the peak Cmax at the time tpeak.
HoldsMarksOf(ns, fr, Cmax, tpeak) ==
    /\ ns.Cmax = Cmax
    /\ ns.tpeak = tpeak
    /\ ns.indx1 = fr.new.indx1 /\ ns.indx2 = fr.new.indx2
    /\ ns.t1 = fr.new.t1 /\ ns.t2 = fr.new.t2
    /\ ns.dCdtreg1 = fr.slope

\* C24: when the loops of the search have ended, Cmax, indx1, indx2, t1,
\* t2, tpeak and dCdtreg1 are those of the observed series.
C24_ObservedMarksKept ==
    (pc = "report" /\ evaluated # <<>>) =>
        HoldsMarksOf(ws, Front(ws.t, AsFloats(ws.C_obs), ClowerD, CupperD),
                     amax(AsFloats(ws.C_obs)), ws.t[argmax(AsFloats(ws.C_obs))])

\* C25: after the fit, the area A the notebook holds and reports is Q / U
\* for the optimized velocity U it reports (a fit with U > 0).
C25_AreaMatchesReportedVelocity ==
    (pc = "fitted" /\ ws.U.num > 0) =>
        ws.A = (ws.Q * ws.U.den) \div ws.U.num

====
